---- MODULE Spec2Model ----
(***************************************************************************)
(* Model of categorizador.js: the title normalizer (normalizeTitle), the   *)
(* key extractor (generateProductKey), the aggregation loop                *)
(* (categorizeProducts) and the file shell around it (processJsonFile).    *)
(*                                                                         *)
(* A text is a sequence of characters.  An ASCII character is the string   *)
(* of that one character; the other code points the program treats        *)
(* specially are named: "TAB" (U+0009), the precomposed letters "a_tilde", *)
(* "A_TILDE", "e_acute", "E_ACUTE", "i_acute", "I_ACUTE", and the          *)
(* combining marks "COMBINING_ACUTE" (U+0301), "COMBINING_TILDE" (U+0303). *)
(***************************************************************************)
EXTENDS Integers, Sequences, FiniteSets

VARIABLES
    \* --- processJsonFile / categorizeProducts ---
    pc,             \* position of the run of processJsonFile
    fileContent,    \* what readFileSync returns: unparseable text or the JSON value it denotes
    products,       \* the argument categorizeProducts was invoked with (NotCalled before)
    i,              \* index of the next element products.forEach visits
    categoriesMap,  \* the Map of categorizeProducts, as its entries in insertion order
    result,         \* the array categorizeProducts returns
    output,         \* the content written to outputFilePath (NotWritten before)
    thrown,         \* the error processJsonFile rethrows ("none" when nothing was thrown)
    \* --- one title through normalizeTitle and generateProductKey ---
    tpc,            \* position of the title pipeline
    title,          \* the raw title
    variedTitle,    \* a second raw title: title with only letter case or accents changed
    normalizedTitle,\* normalizeTitle(title)
    renormalized,   \* normalizeTitle(normalizedTitle)
    keyParts,       \* the locals productType, brand, variant, size of generateProductKey
    key,            \* generateProductKey(normalizedTitle)
    variedKey       \* generateProductKey(normalizeTitle(variedTitle))

progVars == <<pc, fileContent, products, i, categoriesMap, result, output, thrown>>
titleVars == <<tpc, title, variedTitle, normalizedTitle, renormalized, keyParts, key, variedKey>>
vars == <<pc, fileContent, products, i, categoriesMap, result, output, thrown,
          tpc, title, variedTitle, normalizedTitle, renormalized, keyParts, key, variedKey>>

(***************************************************************************)
(* Bounds of the model.                                                    *)
(***************************************************************************)
MaxProducts == 3    \* longest product list read from the input file
MaxNormWords == 3   \* most fragments concatenated into a title for the normalizer
MaxKeyWords == 3    \* most words joined into a title for the key extractor

(***************************************************************************)
(* Characters.                                                             *)
(***************************************************************************)
UpperLetters ==
    <<"A", "B", "C", "D", "E", "F", "G", "H", "I", "J", "K", "L", "M",
      "N", "O", "P", "Q", "R", "S", "T", "U", "V", "W", "X", "Y", "Z">>

LowerLetters ==
    <<"a", "b", "c", "d", "e", "f", "g", "h", "i", "j", "k", "l", "m",
      "n", "o", "p", "q", "r", "s", "t", "u", "v", "w", "x", "y", "z">>

Digits == {"0", "1", "2", "3", "4", "5", "6", "7", "8", "9"}

\* the characters the regular expression class \s and String.prototype.trim treat as white space
WhiteSpace == {" ", "TAB"}

\* the code points of the range U+0300..U+036F
CombiningMarks == {"COMBINING_ACUTE", "COMBINING_TILDE"}

\* String.prototype.toLowerCase on one character
toLowerCaseChar(c) ==
    IF \E n \in 1..26 : UpperLetters[n] = c
    THEN LowerLetters[CHOOSE n \in 1..26 : UpperLetters[n] = c]
    ELSE CASE c = "A_TILDE" -> "a_tilde"
           [] c = "E_ACUTE" -> "e_acute"
           [] c = "I_ACUTE" -> "i_acute"
           [] OTHER -> c

\* canonical decomposition (NFD) of one character
decompose(c) ==
    CASE c = "a_tilde" -> <<"a", "COMBINING_TILDE">>
      [] c = "A_TILDE" -> <<"A", "COMBINING_TILDE">>
      [] c = "e_acute" -> <<"e", "COMBINING_ACUTE">>
      [] c = "E_ACUTE" -> <<"E", "COMBINING_ACUTE">>
      [] c = "i_acute" -> <<"i", "COMBINING_ACUTE">>
      [] c = "I_ACUTE" -> <<"I", "COMBINING_ACUTE">>
      [] OTHER -> <<c>>

(***************************************************************************)
(* The string operations normalizeTitle chains.                            *)
(***************************************************************************)
\* .toLowerCase()
toLowerCase(s) == [n \in 1..Len(s) |-> toLowerCaseChar(s[n])]

RECURSIVE normalizeNFDFrom(_, _)
normalizeNFDFrom(s, n) ==
    IF n > Len(s) THEN <<>> ELSE decompose(s[n]) \o normalizeNFDFrom(s, n + 1)

\* .normalize('NFD')
normalizeNFD(s) == normalizeNFDFrom(s, 1)

isCombiningMark(c) == c \in CombiningMarks

notCombiningMark(c) == ~isCombiningMark(c)

\* .replace(/[\u0300-\u036f]/g, '')
removeAccents(s) == SelectSeq(s, notCombiningMark)

\* .replace(/[-]/g, ' ')
replaceHyphens(s) == [n \in 1..Len(s) |-> IF s[n] = "-" THEN " " ELSE s[n]]

RECURSIVE collapseFrom(_, _)
collapseFrom(s, n) ==
    IF n > Len(s) THEN <<>>
    ELSE IF s[n] \in WhiteSpace
         THEN IF n > 1 /\ s[n - 1] \in WhiteSpace
              THEN collapseFrom(s, n + 1)
              ELSE <<" ">> \o collapseFrom(s, n + 1)
         ELSE <<s[n]>> \o collapseFrom(s, n + 1)

\* .replace(/\s+/g, ' '): every maximal run of white space becomes one space
collapseSpaces(s) == collapseFrom(s, 1)

\* whether pattern occurs in s at position n
matchesAt(s, n, pattern) ==
    /\ n + Len(pattern) - 1 <= Len(s)
    /\ \A m \in 1..Len(pattern) : s[n + m - 1] = pattern[m]

RECURSIVE replaceAllFrom(_, _, _, _)
replaceAllFrom(s, n, pattern, replacement) ==
    IF n > Len(s) THEN <<>>
    ELSE IF matchesAt(s, n, pattern)
         THEN replacement \o replaceAllFrom(s, n + Len(pattern), pattern, replacement)
         ELSE <<s[n]>> \o replaceAllFrom(s, n + 1, pattern, replacement)

\* .replace(/pattern/g, replacement) for a literal pattern: one scan from the
\* left, the matches not overlapping, the replacement text not scanned again
replaceAll(s, pattern, replacement) == replaceAllFrom(s, 1, pattern, replacement)

LITRO == <<"l", "i", "t", "r", "o">>
QUILO == <<"q", "u", "i", "l", "o">>

\* .replace(/litro/g, 'l')
replaceLitro(s) == replaceAll(s, LITRO, <<"l">>)

\* .replace(/quilo/g, 'kg')
replaceQuilo(s) == replaceAll(s, QUILO, <<"k", "g">>)

\* .trim()
trim(s) ==
    LET kept == {n \in 1..Len(s) : s[n] \notin WhiteSpace}
    IN IF kept = {} THEN <<>>
       ELSE LET first == CHOOSE n \in kept : \A m \in kept : n <= m
                last == CHOOSE n \in kept : \A m \in kept : m <= n
            IN SubSeq(s, first, last)

\* a plausible slip: the final .trim() forgotten
normalizeTitleNoTrim(t) ==
    replaceQuilo(replaceLitro(collapseSpaces(replaceHyphens(
        removeAccents(normalizeNFD(toLowerCase(t)))))))

\* a plausible slip: .toLowerCase() forgotten
normalizeTitleNoLowerCase(t) ==
    trim(replaceQuilo(replaceLitro(collapseSpaces(replaceHyphens(
        removeAccents(normalizeNFD(t)))))))

\* function normalizeTitle(title)
normalizeTitle(t) ==
    trim(replaceQuilo(replaceLitro(collapseSpaces(replaceHyphens(
        removeAccents(normalizeNFD(toLowerCase(t))))))))

(***************************************************************************)
(* generateProductKey.                                                     *)
(***************************************************************************)
\* String.prototype.includes
includes(s, sub) == \E n \in 1..(Len(s) - Len(sub) + 1) : matchesAt(s, n, sub)

EMPTY == <<>>
LEITE == <<"l", "e", "i", "t", "e">>
ARROZ == <<"a", "r", "r", "o", "z">>
FEIJAO == <<"f", "e", "i", "j", "a", "o">>
FEIJAO_TILDE == <<"f", "e", "i", "j", "a_tilde", "o">>
INTEGRAL == <<"i", "n", "t", "e", "g", "r", "a", "l">>
SEMI_DESNATADO == <<"s", "e", "m", "i", " ", "d", "e", "s", "n", "a", "t", "a", "d", "o">>
SEMI_HYPHEN_DESNATADO == <<"s", "e", "m", "i", "-", "d", "e", "s", "n", "a", "t", "a", "d", "o">>
DESNATADO == <<"d", "e", "s", "n", "a", "t", "a", "d", "o">>
BRANCO == <<"b", "r", "a", "n", "c", "o">>
CARIOCA == <<"c", "a", "r", "i", "o", "c", "a">>
PIRACANJUBA == <<"p", "i", "r", "a", "c", "a", "n", "j", "u", "b", "a">>
ITALAC == <<"i", "t", "a", "l", "a", "c">>
PARMALAT == <<"p", "a", "r", "m", "a", "l", "a", "t">>
TIO_JOAO == <<"t", "i", "o", " ", "j", "o", "a", "o">>
CAMIL == <<"c", "a", "m", "i", "l">>

\* a plausible slip: plain 'desnatado' tested before 'semi desnatado'
leiteVariantDesnatadoFirst(t) ==
    IF includes(t, INTEGRAL) THEN INTEGRAL
    ELSE IF includes(t, DESNATADO) THEN DESNATADO
    ELSE IF includes(t, SEMI_DESNATADO) \/ includes(t, SEMI_HYPHEN_DESNATADO)
         THEN SEMI_DESNATADO
    ELSE EMPTY

\* the variant of a 'leite' title
leiteVariant(t) ==
    IF includes(t, INTEGRAL) THEN INTEGRAL
    ELSE IF includes(t, SEMI_DESNATADO) \/ includes(t, SEMI_HYPHEN_DESNATADO)
         THEN SEMI_DESNATADO
    ELSE IF includes(t, DESNATADO) THEN DESNATADO
    ELSE EMPTY

\* the brand of a 'leite' title
leiteBrand(t) ==
    IF includes(t, PIRACANJUBA) THEN PIRACANJUBA
    ELSE IF includes(t, ITALAC) THEN ITALAC
    ELSE IF includes(t, PARMALAT) THEN PARMALAT
    ELSE EMPTY

\* the variant of an 'arroz' title
arrozVariant(t) ==
    IF includes(t, BRANCO) THEN BRANCO
    ELSE IF includes(t, INTEGRAL) THEN INTEGRAL
    ELSE EMPTY

\* the brand of an 'arroz' title
arrozBrand(t) == IF includes(t, TIO_JOAO) THEN TIO_JOAO ELSE EMPTY

\* the variant of a 'feijao' title
feijaoVariant(t) == IF includes(t, CARIOCA) THEN CARIOCA ELSE EMPTY

\* the brand of a 'feijao' title
feijaoBrand(t) == IF includes(t, CAMIL) THEN CAMIL ELSE EMPTY

\* a plausible slip: the 'arroz' branch tested before the 'leite' branch
extractFeaturesArrozFirst(t) ==
    IF includes(t, ARROZ)
    THEN [productType |-> ARROZ, brand |-> arrozBrand(t), variant |-> arrozVariant(t)]
    ELSE IF includes(t, LEITE)
    THEN [productType |-> LEITE, brand |-> leiteBrand(t), variant |-> leiteVariant(t)]
    ELSE IF includes(t, FEIJAO) \/ includes(t, FEIJAO_TILDE)
    THEN [productType |-> FEIJAO, brand |-> feijaoBrand(t), variant |-> feijaoVariant(t)]
    ELSE [productType |-> EMPTY, brand |-> EMPTY, variant |-> EMPTY]

\* the if / else if chain that sets productType, brand and variant
extractFeatures(t) ==
    IF includes(t, LEITE)
    THEN [productType |-> LEITE, brand |-> leiteBrand(t), variant |-> leiteVariant(t)]
    ELSE IF includes(t, ARROZ)
    THEN [productType |-> ARROZ, brand |-> arrozBrand(t), variant |-> arrozVariant(t)]
    ELSE IF includes(t, FEIJAO) \/ includes(t, FEIJAO_TILDE)
    THEN [productType |-> FEIJAO, brand |-> feijaoBrand(t), variant |-> feijaoVariant(t)]
    ELSE [productType |-> EMPTY, brand |-> EMPTY, variant |-> EMPTY]

\* the unit letters of the class [kgl]
UnitLetters == {"k", "g", "l"}

\* index of the last digit of the run of digits that starts at n: the greedy (\d+)
RECURSIVE digitsEnd(_, _)
digitsEnd(s, n) ==
    IF n + 1 <= Len(s) /\ s[n + 1] \in Digits THEN digitsEnd(s, n + 1) ELSE n

\* index of the first character at or after n that is not white space: the greedy \s*
RECURSIVE skipSpaces(_, _)
skipSpaces(s, n) ==
    IF n <= Len(s) /\ s[n] \in WhiteSpace THEN skipSpaces(s, n + 1) ELSE n

\* whether /(\d+)\s*([kgl])/i matches starting at n; giving back digits or
\* spaces never helps, since the next character would have to be a unit letter
sizeRegexMatchesAt(s, n) ==
    /\ s[n] \in Digits
    /\ LET u == skipSpaces(s, digitsEnd(s, n) + 1)
       IN u <= Len(s) /\ toLowerCaseChar(s[u]) \in UnitLetters

\* a plausible slip: the unit letter followed by 'g' kept with it
extractSizeTwoLetterUnit(t) ==
    LET starts == {n \in 1..Len(t) : sizeRegexMatchesAt(t, n)}
    IN IF starts = {} THEN EMPTY
       ELSE LET n == CHOOSE m \in starts : \A k \in starts : m <= k
                e == digitsEnd(t, n)
                u == skipSpaces(t, e + 1)
            IN IF u + 1 <= Len(t) /\ t[u + 1] = "g"
               THEN SubSeq(t, n, e) \o <<toLowerCaseChar(t[u]), "g">>
               ELSE SubSeq(t, n, e) \o <<toLowerCaseChar(t[u])>>

\* normalizedTitle.match(sizeRegex) and the size built from its first match
extractSize(t) ==
    LET starts == {n \in 1..Len(t) : sizeRegexMatchesAt(t, n)}
    IN IF starts = {} THEN EMPTY
       ELSE LET n == CHOOSE m \in starts : \A k \in starts : m <= k
                e == digitsEnd(t, n)
                u == skipSpaces(t, e + 1)
            IN SubSeq(t, n, e) \o <<toLowerCaseChar(t[u])>>

\* the four locals of generateProductKey when it reaches its return
keyLocals(t) ==
    LET f == extractFeatures(t)
    IN [productType |-> f.productType, brand |-> f.brand,
        variant |-> f.variant, size |-> extractSize(t)]

\* the template literal `${productType}-${brand}-${variant}-${size}`
joinKey(p) == p.productType \o <<"-">> \o p.brand \o <<"-">> \o p.variant \o <<"-">> \o p.size

\* a plausible slip: a title in which nothing is recognized kept as its own key
generateProductKeyOrTitle(t) ==
    IF joinKey(keyLocals(t)) = <<"-", "-", "-">> THEN t ELSE joinKey(keyLocals(t))

\* function generateProductKey(normalizedTitle)
generateProductKey(t) == joinKey(keyLocals(t))

(***************************************************************************)
(* One title through normalizeTitle and generateProductKey: the inputs.    *)
(***************************************************************************)
\* the concatenations of at most n elements of W, sep between two elements
RECURSIVE Joined(_, _, _)
Joined(W, sep, n) ==
    IF n = 0 THEN {<<>>}
    ELSE LET shorter == Joined(W, sep, n - 1)
         IN shorter \cup W \cup {a \o sep \o w : a \in shorter \ {<<>>}, w \in W}

\* fragments that exercise every step of normalizeTitle
NormWords ==
    { <<"l", "i", "t", "r", "o">>,
      <<"i", "t", "r", "o">>,
      <<"q", "u", "i", "l", "o">>,
      <<"q", "u", "i">>,
      <<"o">>,
      <<"L">>,
      <<" ">>,
      <<"TAB">>,
      <<"-">>,
      <<"1">>,
      <<"A_TILDE">>,
      <<"COMBINING_ACUTE">> }

\* the raw titles given to the normalizer
NormTitles == Joined(NormWords, <<>>, MaxNormWords)

\* words of product titles: type, variant and brand markers, a size
KeyWords ==
    { <<"l", "e", "i", "t", "e">>,
      <<"a", "r", "r", "o", "z">>,
      <<"f", "e", "i", "j", "a_tilde", "o">>,
      <<"i", "n", "t", "e", "g", "r", "a", "l">>,
      <<"s", "e", "m", "i", "-", "d", "e", "s", "n", "a", "t", "a", "d", "o">>,
      <<"s", "e", "m", "i", " ", "d", "e", "s", "n", "a", "t", "a", "d", "o">>,
      <<"d", "e", "s", "n", "a", "t", "a", "d", "o">>,
      <<"b", "r", "a", "n", "c", "o">>,
      <<"p", "i", "r", "a", "c", "a", "n", "j", "u", "b", "a">>,
      <<"t", "i", "o", " ", "j", "o", "a_tilde", "o">>,
      <<"1", " ", "l", "i", "t", "r", "o">> }

TITLE_LEITE == <<"L", "e", "i", "t", "e", " ", "I", "n", "t", "e", "g", "r", "a", "l", " ", "P", "i", "r", "a", "c", "a", "n", "j", "u", "b", "a", " ", "1", "L">>
TITLE_LEITE_UPPER == <<"L", "E", "I", "T", "E", " ", "I", "N", "T", "E", "G", "R", "A", "L", " ", "P", "I", "R", "A", "C", "A", "N", "J", "U", "B", "A", " ", "1", "l">>
TITLE_LEITE_ACCENT == <<"l", "e", "i", "t", "e", " ", "i_acute", "n", "t", "e", "g", "r", "a", "l", " ", "p", "i", "r", "a", "c", "a", "n", "j", "u", "b", "a", " ", "1", "l">>
TITLE_ARROZ == <<"A", "r", "r", "o", "z", " ", "B", "r", "a", "n", "c", "o", " ", "T", "i", "o", " ", "J", "o", "a_tilde", "o", " ", "5", "k", "g">>
TITLE_FEIJAO == <<"F", "e", "i", "j", "a_tilde", "o", " ", "C", "a", "r", "i", "o", "c", "a", " ", "C", "a", "m", "i", "l", " ", "1", " ", "Q", "u", "i", "l", "o">>
TITLE_GENERICO == <<"P", "r", "o", "d", "u", "t", "o", " ", "G", "e", "n", "e_acute", "r", "i", "c", "o", " ", "X", "Y", "Z">>
TITLE_SABAO == <<"S", "a", "b", "a_tilde", "o", " ", "N", "e", "u", "t", "r", "o">>
TITLE_1_LITRO == <<"1", " ", "L", "i", "t", "r", "o">>
TITLE_1L == <<"1", "L">>
TITLE_1_QUILO == <<"1", " ", "Q", "u", "i", "l", "o">>
TITLE_1KG == <<"1", "k", "g">>
TITLE_ARROZ_LEITE == <<"a", "r", "r", "o", "z", " ", "b", "r", "a", "n", "c", "o", " ", "t", "i", "o", " ", "j", "o", "a_tilde", "o", " ", "c", "o", "m", " ", "l", "e", "i", "t", "e">>

\* titles given in full
ExampleTitles ==
    { TITLE_LEITE, TITLE_LEITE_UPPER, TITLE_LEITE_ACCENT, TITLE_ARROZ, TITLE_FEIJAO,
      TITLE_GENERICO, TITLE_SABAO, TITLE_1_LITRO, TITLE_1L, TITLE_1_QUILO, TITLE_1KG,
      TITLE_ARROZ_LEITE }

\* the raw titles given to the key extractor
KeyTitles == Joined(KeyWords, <<" ">>, MaxKeyWords) \cup ExampleTitles

toUpperCaseChar(c) ==
    IF \E n \in 1..26 : LowerLetters[n] = c
    THEN UpperLetters[CHOOSE n \in 1..26 : LowerLetters[n] = c]
    ELSE CASE c = "a_tilde" -> "A_TILDE"
           [] c = "e_acute" -> "E_ACUTE"
           [] c = "i_acute" -> "I_ACUTE"
           [] OTHER -> c

withAccent(c) ==
    CASE c = "a" -> "a_tilde" [] c = "A" -> "A_TILDE"
      [] c = "e" -> "e_acute" [] c = "E" -> "E_ACUTE"
      [] c = "i" -> "i_acute" [] c = "I" -> "I_ACUTE"
      [] OTHER -> c

withoutAccent(c) ==
    CASE c = "a_tilde" -> "a" [] c = "A_TILDE" -> "A"
      [] c = "e_acute" -> "e" [] c = "E_ACUTE" -> "E"
      [] c = "i_acute" -> "i" [] c = "I_ACUTE" -> "I"
      [] OTHER -> c

RECURSIVE withCombiningMarksFrom(_, _)
withCombiningMarksFrom(s, n) ==
    IF n > Len(s) THEN <<>>
    ELSE IF s[n] \in {"a", "e", "i", "o", "u", "A", "E", "I", "O", "U"}
         THEN <<s[n], "COMBINING_ACUTE">> \o withCombiningMarksFrom(s, n + 1)
         ELSE <<s[n]>> \o withCombiningMarksFrom(s, n + 1)

\* the ways a second title is made from a title by changing only letter case or accents
Variations == {"upper", "alternate", "accented", "unaccented", "combining"}

Vary(t, v) ==
    CASE v = "upper" -> [n \in 1..Len(t) |-> toUpperCaseChar(t[n])]
      [] v = "alternate" ->
            [n \in 1..Len(t) |-> IF n % 2 = 1 THEN toUpperCaseChar(t[n]) ELSE toLowerCaseChar(t[n])]
      [] v = "accented" -> [n \in 1..Len(t) |-> withAccent(t[n])]
      [] v = "unaccented" -> [n \in 1..Len(t) |-> withoutAccent(t[n])]
      [] v = "combining" -> withCombiningMarksFrom(t, 1)

(***************************************************************************)
(* processJsonFile: the inputs.  A JSON value is a record with its type;   *)
(* a list carries its items, an object of a list its title and supermarket.*)
(***************************************************************************)
Unparseable == [type |-> "unparseable"]
NotCalled == [type |-> "none"]
NotWritten == [written |-> FALSE, content |-> <<>>]

Record(t, m) == [type |-> "object", title |-> t, supermarket |-> m]

\* what a list in the input file may hold: product records, and a number
ItemPool ==
    { Record(TITLE_LEITE, "X"), Record(TITLE_LEITE_UPPER, "Y"), Record(TITLE_LEITE, "Y"),
      Record(TITLE_ARROZ, "X"), Record(TITLE_GENERICO, "X"), Record(TITLE_SABAO, "Y"),
      Record(TITLE_FEIJAO, "Y"), [type |-> "number"] }

RECURSIVE Lists(_)
Lists(n) ==
    IF n = 0 THEN {<<>>}
    ELSE LET shorter == Lists(n - 1)
         IN shorter \cup {Append(l, x) : l \in shorter, x \in ItemPool}

\* what the input file may hold
FileContents ==
    {Unparseable, [type |-> "object"], [type |-> "null"], [type |-> "string"]}
        \cup {[type |-> "list", items |-> l] : l \in Lists(MaxProducts)}

(***************************************************************************)
(* categorizeProducts.                                                     *)
(***************************************************************************)
\* the object built from a product, without its other fields
productInfo(product) == [title |-> product.title, supermarket |-> product.supermarket]

\* categoriesMap.has(key)
mapHas(map, k) == \E n \in 1..Len(map) : map[n].key = k

\* a plausible slip: an existing category replaced by the product, not extended
addProductOverwrite(map, product) ==
    LET k == generateProductKey(normalizeTitle(product.title))
        info == productInfo(product)
    IN IF mapHas(map, k)
       THEN [n \in 1..Len(map) |->
                IF map[n].key = k
                THEN [key |-> k, value |-> [category |-> product.title, products |-> <<info>>]]
                ELSE map[n]]
       ELSE Append(map, [key |-> k,
                         value |-> [category |-> product.title, products |-> <<info>>]])

\* a plausible slip: the product put at the front of its category (unshift for push)
addProductAtFront(map, product) ==
    LET k == generateProductKey(normalizeTitle(product.title))
        info == productInfo(product)
    IN IF mapHas(map, k)
       THEN [n \in 1..Len(map) |->
                IF map[n].key = k
                THEN [map[n] EXCEPT !.value.products = <<info>> \o @]
                ELSE map[n]]
       ELSE Append(map, [key |-> k,
                         value |-> [category |-> product.title, products |-> <<info>>]])

\* the callback of products.forEach: the product is pushed onto the category
\* of its key, or a category is created under its key at the end of the Map
addProduct(map, product) ==
    LET k == generateProductKey(normalizeTitle(product.title))
        info == productInfo(product)
    IN IF mapHas(map, k)
       THEN [n \in 1..Len(map) |->
                IF map[n].key = k
                THEN [map[n] EXCEPT !.value.products = Append(@, info)]
                ELSE map[n]]
       ELSE Append(map, [key |-> k,
                         value |-> [category |-> product.title, products |-> <<info>>]])

\* Array.from(categoriesMap.values()).map(...)
buildResult(map) ==
    [n \in 1..Len(map) |->
        [category |-> map[n].value.category,
         count |-> Len(map[n].value.products),
         products |-> map[n].value.products]]

\* whether reading .title of the element gives a text
hasTextTitle(item) == item.type = "object"

(***************************************************************************)
(* The run of processJsonFile(inputFilePath, outputFilePath).              *)
(***************************************************************************)
titleIdle ==
    /\ tpc = "idle" /\ title = <<>> /\ variedTitle = <<>> /\ normalizedTitle = <<>>
    /\ renormalized = <<>> /\ key = <<>> /\ variedKey = <<>>
    /\ keyParts = [productType |-> <<>>, brand |-> <<>>, variant |-> <<>>, size |-> <<>>]

progIdle ==
    /\ pc = "idle" /\ fileContent = Unparseable /\ products = NotCalled /\ i = 1
    /\ categoriesMap = <<>> /\ result = <<>> /\ output = NotWritten /\ thrown = "none"

Init ==
    /\ pc = "start"
    /\ fileContent \in FileContents
    /\ products = NotCalled
    /\ i = 1
    /\ categoriesMap = <<>>
    /\ result = <<>>
    /\ output = NotWritten
    /\ thrown = "none"
    /\ titleIdle

\* fs.readFileSync and JSON.parse: a SyntaxError goes to the catch, which rethrows it
ReadAndParse ==
    /\ pc = "start"
    /\ IF fileContent = Unparseable
       THEN pc' = "threw" /\ thrown' = "SyntaxError"
       ELSE pc' = "parsed" /\ thrown' = thrown
    /\ UNCHANGED <<fileContent, products, i, categoriesMap, result, output>>
    /\ UNCHANGED titleVars

\* categorizeProducts(products) is entered with whatever JSON.parse returned;
\* products.forEach throws a TypeError when that value is not an array
CategorizeCall ==
    /\ pc = "parsed"
    /\ products' = fileContent
    /\ IF fileContent.type = "list"
       THEN pc' = "forEach" /\ thrown' = thrown
       ELSE pc' = "threw" /\ thrown' = "TypeError"
    /\ i' = 1
    /\ categoriesMap' = <<>>
    /\ UNCHANGED <<fileContent, result, output>>
    /\ UNCHANGED titleVars

\* one call of the forEach callback; normalizeTitle throws a TypeError when
\* product.title is not a text
ForEachStep ==
    /\ pc = "forEach"
    /\ i <= Len(products.items)
    /\ IF hasTextTitle(products.items[i])
       THEN /\ categoriesMap' = addProduct(categoriesMap, products.items[i])
            /\ i' = i + 1
            /\ UNCHANGED <<pc, thrown>>
       ELSE /\ pc' = "threw"
            /\ thrown' = "TypeError"
            /\ UNCHANGED <<categoriesMap, i>>
    /\ UNCHANGED <<fileContent, products, result, output>>
    /\ UNCHANGED titleVars

\* the forEach is over: the result array is built and returned
BuildResult ==
    /\ pc = "forEach"
    /\ i > Len(products.items)
    /\ result' = buildResult(categoriesMap)
    /\ pc' = "returned"
    /\ UNCHANGED <<fileContent, products, i, categoriesMap, output, thrown>>
    /\ UNCHANGED titleVars

\* fs.writeFileSync(outputFilePath, JSON.stringify(categorizedProducts, null, 2))
WriteFile ==
    /\ pc = "returned"
    /\ output' = [written |-> TRUE, content |-> result]
    /\ pc' = "done"
    /\ UNCHANGED <<fileContent, products, i, categoriesMap, result, thrown>>
    /\ UNCHANGED titleVars

Next == ReadAndParse \/ CategorizeCall \/ ForEachStep \/ BuildResult \/ WriteFile

Spec == Init /\ [][Next]_vars

(***************************************************************************)
(* normalizeTitle and generateProductKey called on one title.              *)
(***************************************************************************)
InitNormalize ==
    /\ progIdle
    /\ tpc = "start"
    /\ title \in NormTitles
    /\ variedTitle = <<>>
    /\ normalizedTitle = <<>>
    /\ renormalized = <<>>
    /\ key = <<>>
    /\ variedKey = <<>>
    /\ keyParts = [productType |-> <<>>, brand |-> <<>>, variant |-> <<>>, size |-> <<>>]

InitKey ==
    /\ progIdle
    /\ tpc = "start"
    /\ title \in KeyTitles
    /\ variedTitle = <<>>
    /\ normalizedTitle = <<>>
    /\ renormalized = <<>>
    /\ key = <<>>
    /\ variedKey = <<>>
    /\ keyParts = [productType |-> <<>>, brand |-> <<>>, variant |-> <<>>, size |-> <<>>]

\* const normalizedTitle = normalizeTitle(product.title)
Normalize ==
    /\ tpc = "start"
    /\ normalizedTitle' = normalizeTitle(title)
    /\ tpc' = "normalized"
    /\ UNCHANGED <<title, variedTitle, renormalized, keyParts, key, variedKey>>
    /\ UNCHANGED progVars

\* normalizeTitle called on its own result
Renormalize ==
    /\ tpc = "normalized"
    /\ renormalized' = normalizeTitle(normalizedTitle)
    /\ tpc' = "renormalized"
    /\ UNCHANGED <<title, variedTitle, normalizedTitle, keyParts, key, variedKey>>
    /\ UNCHANGED progVars

\* const key = generateProductKey(normalizedTitle), and both calls again for a
\* second title that differs from the first only in letter case or accents
GenerateKey ==
    /\ tpc = "normalized"
    /\ keyParts' = keyLocals(normalizedTitle)
    /\ key' = generateProductKey(normalizedTitle)
    /\ \E v \in Variations :
          /\ variedTitle' = Vary(title, v)
          /\ variedKey' = generateProductKey(normalizeTitle(Vary(title, v)))
    /\ tpc' = "keyed"
    /\ UNCHANGED <<title, normalizedTitle, renormalized>>
    /\ UNCHANGED progVars

NextNormalize == Normalize \/ Renormalize

SpecNormalize == InitNormalize /\ [][NextNormalize]_vars

NextKey == Normalize \/ GenerateKey

SpecKey == InitKey /\ [][NextKey]_vars

(***************************************************************************)
(* Properties of categorizeProducts and processJsonFile, under Spec.       *)
(***************************************************************************)
RECURSIVE SumCounts(_)
SumCounts(r) == IF r = <<>> THEN 0 ELSE Head(r).count + SumCounts(Tail(r))

Returned == pc \in {"returned", "done"}

\* C1: when categorizeProducts has returned, the counts of the categories add
\* up to the number of input records, and the count of each category is the
\* length of its products list.
CountsAddUp ==
    Returned =>
        /\ SumCounts(result) = Len(products.items)
        /\ \A c \in 1..Len(result) : result[c].count = Len(result[c].products)

\* three records were read and two of them share a category
CountsAddUpWitness ==
    /\ pc = "done"
    /\ Len(products.items) = 3
    /\ Len(result) = 2
    /\ \E c \in 1..2 : result[c].count = 2

keyOfItem(item) == generateProductKey(normalizeTitle(item.title))

\* the records among the first n items whose key is k, as product objects, in input order
MembersInInputOrder(items, n, k) ==
    LET hasKey(item) == keyOfItem(item) = k
        members == SelectSeq(SubSeq(items, 1, n), hasKey)
    IN [m \in 1..Len(members) |-> productInfo(members[m])]

\* C5: at every point of the loop each category holds exactly the records
\* visited so far that have its key, in input order, and its representative
\* title is the original title of the first of them; the returned array lists
\* the same categories with the same members and titles.
OrderPreserved ==
    /\ pc \in {"forEach", "returned", "done"} =>
          \A c \in 1..Len(categoriesMap) :
             LET members == MembersInInputOrder(products.items, i - 1, categoriesMap[c].key)
             IN /\ members # <<>>
                /\ categoriesMap[c].value.products = members
                /\ categoriesMap[c].value.category = members[1].title
    /\ Returned =>
          /\ Len(result) = Len(categoriesMap)
          /\ \A c \in 1..Len(result) :
                /\ result[c].products = categoriesMap[c].value.products
                /\ result[c].category = categoriesMap[c].value.category

\* records A, B, A' with A and A' of one key and different titles: the category
\* holds A then A' and is named after A
OrderPreservedWitness ==
    /\ pc = "done"
    /\ Len(products.items) = 3
    /\ products.items[1].title # products.items[3].title
    /\ keyOfItem(products.items[1]) = keyOfItem(products.items[3])
    /\ keyOfItem(products.items[1]) # keyOfItem(products.items[2])
    /\ result[1].products = <<productInfo(products.items[1]), productInfo(products.items[3])>>
    /\ result[1].category = products.items[1].title

AllMarkers ==
    { LEITE, ARROZ, FEIJAO, FEIJAO_TILDE, INTEGRAL, SEMI_DESNATADO, SEMI_HYPHEN_DESNATADO,
      DESNATADO, BRANCO, CARIOCA, PIRACANJUBA, ITALAC, PARMALAT, TIO_JOAO, CAMIL }

\* a normalized title with no type, brand or variant marker and no digits
\* followed by optional white space and k, g or l
Unmarked(t) ==
    /\ \A marker \in AllMarkers : ~includes(t, marker)
    /\ \A n \in 1..Len(t) : ~sizeRegexMatchesAt(t, n)

UNKNOWN_KEY == <<"-", "-", "-">>

\* C6: every record whose normalized title is unmarked is filed under the key
\* "---", "Produto Generico XYZ" (with its accent) is such a title, all such
\* records are in one single category, and a list of records with text titles
\* never makes the run throw.
UnknownProductsShareOneBucket ==
    /\ pc \in {"forEach", "returned", "done"} =>
          \A n \in 1..(i - 1) :
             Unmarked(normalizeTitle(products.items[n].title)) =>
                \E c \in 1..Len(categoriesMap) :
                   /\ categoriesMap[c].key = UNKNOWN_KEY
                   /\ \E m \in 1..Len(categoriesMap[c].value.products) :
                         categoriesMap[c].value.products[m] = productInfo(products.items[n])
    /\ Unmarked(normalizeTitle(TITLE_GENERICO))
    /\ generateProductKey(normalizeTitle(TITLE_GENERICO)) = UNKNOWN_KEY
    /\ Returned =>
          Cardinality({c \in 1..Len(result) :
                          \E m \in 1..Len(result[c].products) :
                             Unmarked(normalizeTitle(result[c].products[m].title))}) <= 1
    /\ (products.type = "list" /\ \A n \in 1..Len(products.items) : hasTextTitle(products.items[n]))
          => thrown = "none"

\* two unmarked titles of different products ended in the one category of key "---"
UnknownProductsWitness ==
    /\ pc = "done"
    /\ \E c \in 1..Len(result) :
          /\ categoriesMap[c].key = UNKNOWN_KEY
          /\ result[c].count = 2
          /\ result[c].products[1].title = TITLE_GENERICO
          /\ result[c].products[2].title = TITLE_SABAO

IsListOfRecords(v) ==
    /\ v.type = "list"
    /\ \A n \in 1..Len(v.items) : hasTextTitle(v.items[n])

\* C8: categorizeProducts is only ever invoked with a list of records; an
\* input that is unparseable or not such a list is rejected before the call.
CoreOnlyReceivesLists == products = NotCalled \/ IsListOfRecords(products)

(***************************************************************************)
(* Properties of normalizeTitle, under SpecNormalize.                      *)
(***************************************************************************)
\* C2: normalizeTitle applied to its own result returns that result.
NormalizeIdempotent == tpc = "renormalized" => renormalized = normalizedTitle

\* the six steps in the order the design lists them: the units are replaced
\* before the white space is collapsed
stepsInListedOrder(t) ==
    trim(collapseSpaces(replaceQuilo(replaceLitro(replaceHyphens(
        removeAccents(normalizeNFD(toLowerCase(t))))))))

\* C10: normalizeTitle returns what the six steps give in the listed order
\* (lowercase, strip accents, hyphens to spaces, units, collapse, trim), and
\* the empty text for the empty text.
NormalizeMatchesListedOrder ==
    tpc \in {"normalized", "renormalized"} =>
        /\ normalizedTitle = stepsInListedOrder(title)
        /\ title = <<>> => normalizedTitle = <<>>

\* a title with a run of white space and the word 'Litro' was normalized to 'l'
NormalizeListedOrderWitness ==
    /\ tpc = "normalized"
    /\ \E n \in 1..(Len(title) - 1) : title[n] \in WhiteSpace /\ title[n + 1] \in WhiteSpace
    /\ includes(toLowerCase(title), LITRO)
    /\ normalizedTitle = <<"l">>

(***************************************************************************)
(* Properties of generateProductKey after normalizeTitle, under SpecKey.   *)
(***************************************************************************)
SIZE_1L == <<"1", "l">>
SIZE_1K == <<"1", "k">>
SIZE_1KG == <<"1", "k", "g">>

\* C3 as stated: "1 Litro" and "1L" give the size token "1l", "1 Quilo" and
\* "1kg" give the size token "1kg".
UnitSynonymsAsStated ==
    tpc = "keyed" =>
        /\ title \in {TITLE_1_LITRO, TITLE_1L} => keyParts.size = SIZE_1L
        /\ title \in {TITLE_1_QUILO, TITLE_1KG} => keyParts.size = SIZE_1KG

\* C3 amended: "1 Litro" and "1L" give the size token "1l", "1 Quilo" and
\* "1kg" give one common size token, which is "1k": the unit is one letter.
UnitSynonymsCollapse ==
    tpc = "keyed" =>
        /\ title \in {TITLE_1_LITRO, TITLE_1L} => keyParts.size = SIZE_1L
        /\ title \in {TITLE_1_QUILO, TITLE_1KG} => keyParts.size = SIZE_1K

\* "1 Quilo" went through both functions
UnitSynonymsWitness ==
    /\ tpc = "keyed"
    /\ title = TITLE_1_QUILO
    /\ normalizedTitle = <<"1", " ", "k", "g">>
    /\ keyParts.size = SIZE_1K

KEY_LEITE_PIRACANJUBA_INTEGRAL_1L ==
    <<"l", "e", "i", "t", "e", "-", "p", "i", "r", "a", "c", "a", "n", "j", "u", "b", "a", "-",
      "i", "n", "t", "e", "g", "r", "a", "l", "-", "1", "l">>

\* C4: a title and a title that differs from it only in letter case or accents
\* get the same key; the three spellings of the Piracanjuba milk get the key
\* "leite-piracanjuba-integral-1l".
CaseAccentInvariance ==
    tpc = "keyed" =>
        /\ variedKey = key
        /\ title \in {TITLE_LEITE, TITLE_LEITE_UPPER, TITLE_LEITE_ACCENT}
              => key = KEY_LEITE_PIRACANJUBA_INTEGRAL_1L

\* the accented spelling and an upper-case variant of it were both keyed
CaseAccentWitness ==
    /\ tpc = "keyed"
    /\ title = TITLE_LEITE_ACCENT
    /\ variedTitle # title
    /\ variedTitle = Vary(title, "upper")
    /\ variedKey = KEY_LEITE_PIRACANJUBA_INTEGRAL_1L

\* the title with every "semi-desnatado" written "semi desnatado"
hyphenAsSpace(t) == replaceAll(t, SEMI_HYPHEN_DESNATADO, SEMI_DESNATADO)

\* C7: a title that contains 'leite', does not contain 'integral' and spells
\* the variant "semi-desnatado" or "semi desnatado" gets the variant token
\* "semi desnatado"; a title and the title with that hyphen written as a space
\* get the same key.
HyphenSpaceEquivalence ==
    tpc = "keyed" =>
        /\ ( /\ includes(normalizedTitle, LEITE)
             /\ ~includes(normalizedTitle, INTEGRAL)
             /\ \/ includes(title, SEMI_HYPHEN_DESNATADO)
                \/ includes(title, SEMI_DESNATADO) )
              => keyParts.variant = SEMI_DESNATADO
        /\ includes(title, SEMI_HYPHEN_DESNATADO)
              => generateProductKey(normalizeTitle(hyphenAsSpace(title))) = key

\* a milk title spelt with the hyphen got the variant "semi desnatado"
HyphenSpaceWitness ==
    /\ tpc = "keyed"
    /\ includes(title, LEITE)
    /\ includes(title, SEMI_HYPHEN_DESNATADO)
    /\ ~includes(title, SEMI_DESNATADO)
    /\ keyParts.variant = SEMI_DESNATADO
    /\ hyphenAsSpace(title) # title

\* the vocabulary of each product type
BrandsOf(type) ==
    CASE type = LEITE -> {PIRACANJUBA, ITALAC, PARMALAT}
      [] type = ARROZ -> {TIO_JOAO}
      [] type = FEIJAO -> {CAMIL}
      [] OTHER -> {}

VariantsOf(type) ==
    CASE type = LEITE -> {INTEGRAL, SEMI_DESNATADO, DESNATADO}
      [] type = ARROZ -> {BRANCO, INTEGRAL}
      [] type = FEIJAO -> {CARIOCA}
      [] OTHER -> {}

\* C9: the product type is that of the first marker, in the order leite,
\* arroz, feijao, that the normalized title contains, and the brand and the
\* variant are empty or words of that type's own vocabulary.
PriorityChain ==
    tpc = "keyed" =>
        /\ keyParts.productType =
              IF includes(normalizedTitle, LEITE) THEN LEITE
              ELSE IF includes(normalizedTitle, ARROZ) THEN ARROZ
              ELSE IF includes(normalizedTitle, FEIJAO) THEN FEIJAO
              ELSE EMPTY
        /\ keyParts.brand \in BrandsOf(keyParts.productType) \cup {EMPTY}
        /\ keyParts.variant \in VariantsOf(keyParts.productType) \cup {EMPTY}
        /\ key = joinKey(keyParts)

\* a title with the markers 'arroz', 'branco', 'tio joao' and 'leite' was keyed as milk
PriorityChainWitness ==
    /\ tpc = "keyed"
    /\ title = TITLE_ARROZ_LEITE
    /\ includes(normalizedTitle, ARROZ)
    /\ includes(normalizedTitle, BRANCO)
    /\ includes(normalizedTitle, TIO_JOAO)
    /\ keyParts = [productType |-> LEITE, brand |-> EMPTY, variant |-> EMPTY, size |-> EMPTY]

====
